---- MODULE Spec2Model ----
(***************************************************************************)
(* Model of the MCP AI Agent Server (src/main.py, src/agent.py).           *)
(*                                                                         *)
(* Python strings are modelled as sequences of one-character strings, so   *)
(* that str.startswith, str.split, str.lower, os.path.expandvars and       *)
(* os.path.normpath are computed character by character (POSIX host).      *)
(* File contents are sequences of bytes (0..255); decoded text is a        *)
(* sequence of code points.                                                *)
(*                                                                         *)
(* Three specifications share the variables:                               *)
(*   Spec       a running server answers one read_file request, sent to    *)
(*              POST /tools/read_file or to POST /process;                 *)
(*   SpecTools  a running server answers one request of any kind;          *)
(*   SpecBoot   the __main__ block of main.py selects a port and starts    *)
(*              the server (FairSpecBoot: and keeps running).              *)
(* The handlers share no mutable state, so a behaviour holds one request.  *)
(***************************************************************************)
EXTENDS Integers, Sequences, FiniteSets, TLC

VARIABLES
    environ,      \* os.environ: variable name -> value (both strings)
    cwd,          \* os.getcwd()
    fileBytes,    \* bytes of the one regular file content the host varies
    arg,          \* the string the client puts in its request (path or text)
    req,          \* the HTTP request last handled ([route |-> "none"] before)
    rf,           \* outcome of the read_file call made by the handler
    resp,         \* the HTTP response returned to the caller
    pc,           \* position of the __main__ block of main.py
    port,         \* local variable port of __main__
    attempt,      \* loop variable attempt of __main__ (iterations completed)
    probes,       \* ports handed to is_port_in_use so far, in order
    listening,    \* ports on 127.0.0.1 that accept a connection
    servedPort,   \* port uvicorn.run was started on (0: not started)
    exitStatus,   \* status given to sys.exit (-1: no exit)
    agent         \* outcome of the last MCPAgent() construction

vars == <<environ, cwd, fileBytes, arg, req, rf, resp,
          pc, port, attempt, probes, listening, servedPort, exitStatus, agent>>

reqVars == <<environ, cwd, fileBytes, arg, req, rf, resp>>
bootVars == <<pc, port, attempt, probes, listening, servedPort, exitStatus>>

-----------------------------------------------------------------------------
(* Bounds of the model *)

\* longest tail of path segments appended to a base path in a request
MaxSegs == 3
\* longest text handed to count_r
MaxTextLen == 3

-----------------------------------------------------------------------------
(* String helpers (Python str methods) *)

Chars(s) == {s[i] : i \in 1..Len(s)}

\* str.startswith
StartsWith(s, prefix) ==
    /\ Len(prefix) <= Len(s)
    /\ SubSeq(s, 1, Len(prefix)) = prefix

\* s[i:] with a 1-based i
From(s, i) == SubSeq(s, i, Len(s))

\* str.find(c, i) for a one-character c, 1-based; 0 when absent
RECURSIVE FindChar(_, _, _)
FindChar(s, c, i) ==
    IF i > Len(s) THEN 0
    ELSE IF s[i] = c THEN i
    ELSE FindChar(s, c, i + 1)

\* str.find(sub), 1-based; 0 when absent
RECURSIVE FindSubFrom(_, _, _)
FindSubFrom(s, sub, i) ==
    IF i + Len(sub) - 1 > Len(s) THEN 0
    ELSE IF SubSeq(s, i, i + Len(sub) - 1) = sub THEN i
    ELSE FindSubFrom(s, sub, i + 1)

FindSub(s, sub) == FindSubFrom(s, sub, 1)

\* the `in` operator on strings
Contains(s, sub) == FindSub(s, sub) # 0

\* str.split(sep) for a non-empty separator string
RECURSIVE SplitStr(_, _)
SplitStr(s, sep) ==
    LET k == FindSub(s, sep) IN
    IF k = 0 THEN <<s>>
    ELSE <<SubSeq(s, 1, k - 1)>> \o SplitStr(From(s, k + Len(sep)), sep)

\* sep.join(parts)
RECURSIVE JoinStr(_, _)
JoinStr(parts, sep) ==
    IF Len(parts) = 0 THEN <<>>
    ELSE IF Len(parts) = 1 THEN parts[1]
    ELSE parts[1] \o sep \o JoinStr(Tail(parts), sep)

Whitespace == {" ", "\t", "\n", "\r"}

RECURSIVE LStrip(_)
LStrip(s) ==
    IF Len(s) > 0 /\ s[1] \in Whitespace THEN LStrip(Tail(s)) ELSE s

RECURSIVE RStrip(_)
RStrip(s) ==
    IF Len(s) > 0 /\ s[Len(s)] \in Whitespace
    THEN RStrip(SubSeq(s, 1, Len(s) - 1)) ELSE s

\* str.strip()
Strip(s) == LStrip(RStrip(s))

\* str.rstrip(c) for a one-character c
RECURSIVE RStripChar(_, _)
RStripChar(s, c) ==
    IF Len(s) > 0 /\ s[Len(s)] = c
    THEN RStripChar(SubSeq(s, 1, Len(s) - 1), c) ELSE s

UpperLetters == <<"A","B","C","D","E","F","G","H","I","J","K","L","M",
                  "N","O","P","Q","R","S","T","U","V","W","X","Y","Z">>
LowerLetters == <<"a","b","c","d","e","f","g","h","i","j","k","l","m",
                  "n","o","p","q","r","s","t","u","v","w","x","y","z">>
Digits == {"0","1","2","3","4","5","6","7","8","9"}

\* str.lower() on one ASCII character
LowerChar(c) ==
    IF \E i \in 1..26 : UpperLetters[i] = c
    THEN LowerLetters[CHOOSE i \in 1..26 : UpperLetters[i] = c]
    ELSE c

\* str.lower()
Lower(s) == [i \in 1..Len(s) |-> LowerChar(s[i])]

\* str.count(c) for a one-character c
StrCount(s, c) == Cardinality({i \in 1..Len(s) : s[i] = c})

-----------------------------------------------------------------------------
(* posixpath, as called from normalize_path and read_file *)

WordChars == Chars(UpperLetters) \cup Chars(LowerLetters) \cup Digits \cup {"_"}

\* index just past the longest run of \w characters that starts at i
RECURSIVE WordEnd(_, _)
WordEnd(s, i) ==
    IF i <= Len(s) /\ s[i] \in WordChars THEN WordEnd(s, i + 1) ELSE i

\* The match of \$(\w+|\{[^}]*\}) with its "$" at index d: j is the index
\* just past the match (0: no match there), name the variable name with the
\* braces removed.
VarMatch(s, d) ==
    IF d + 1 <= Len(s) /\ s[d + 1] \in WordChars
    THEN LET j == WordEnd(s, d + 1) IN
         [j |-> j, name |-> SubSeq(s, d + 1, j - 1)]
    ELSE IF d + 1 <= Len(s) /\ s[d + 1] = "{"
    THEN LET k == FindChar(s, "}", d + 2) IN
         IF k = 0 THEN [j |-> 0, name |-> <<>>]
         ELSE [j |-> k + 1, name |-> SubSeq(s, d + 2, k - 1)]
    ELSE [j |-> 0, name |-> <<>>]

\* The while loop of posixpath.expandvars: search from index i; a variable
\* that is set is replaced by its value and the search resumes after the
\* value (the value is not expanded again); one that is not set is left.
RECURSIVE ExpandFrom(_, _, _)
ExpandFrom(path, i, env) ==
    LET d == FindChar(path, "$", i) IN
    IF d = 0 THEN path
    ELSE LET m == VarMatch(path, d) IN
         IF m.j = 0 THEN ExpandFrom(path, d + 1, env)
         ELSE IF m.name \in DOMAIN env
         THEN LET head == SubSeq(path, 1, d - 1) \o env[m.name] IN
              ExpandFrom(head \o From(path, m.j), Len(head) + 1, env)
         ELSE ExpandFrom(path, m.j, env)

\* os.path.expandvars
expandvars(path, env) == ExpandFrom(path, 1, env)

\* os.path.isabs
isabs(path) == StartsWith(path, <<"/">>)

\* os.path.join(a, b)
join(a, b) ==
    IF StartsWith(b, <<"/">>) THEN b
    ELSE IF Len(a) = 0 \/ a[Len(a)] = "/" THEN a \o b
    ELSE a \o <<"/">> \o b

\* The for loop of posixpath.normpath over the components
RECURSIVE NormComps(_, _, _)
NormComps(comps, new_comps, initial_slashes) ==
    IF Len(comps) = 0 THEN new_comps
    ELSE LET comp == Head(comps) IN
         IF comp = <<>> \/ comp = <<".">>
         THEN NormComps(Tail(comps), new_comps, initial_slashes)
         ELSE IF \/ comp # <<".", ".">>
                 \/ (initial_slashes = 0 /\ Len(new_comps) = 0)
                 \/ (Len(new_comps) > 0 /\ new_comps[Len(new_comps)] = <<".", ".">>)
         THEN NormComps(Tail(comps), Append(new_comps, comp), initial_slashes)
         ELSE IF Len(new_comps) > 0
         THEN NormComps(Tail(comps), SubSeq(new_comps, 1, Len(new_comps) - 1),
                        initial_slashes)
         ELSE NormComps(Tail(comps), new_comps, initial_slashes)

\* os.path.normpath
normpath(path) ==
    IF Len(path) = 0 THEN <<".">>
    ELSE LET initial_slashes ==
                 IF ~StartsWith(path, <<"/">>) THEN 0
                 ELSE IF StartsWith(path, <<"/", "/">>)
                         /\ ~StartsWith(path, <<"/", "/", "/">>) THEN 2
                 ELSE 1
             comps == NormComps(SplitStr(path, <<"/">>), <<>>, initial_slashes)
             joined == JoinStr(comps, <<"/">>)
             out == [i \in 1..initial_slashes |-> "/"] \o joined
         IN  IF Len(out) = 0 THEN <<".">> ELSE out

\* os.path.abspath
abspath(path, dir) ==
    normpath(IF isabs(path) THEN path ELSE join(dir, path))

\* home directory of the user in the password database (used when HOME is
\* not set)
PwDir == <<"/","h","o","m","e","/","u">>

\* os.path.expanduser for a path of the form "~" or "~/..."
expanduser(path, env) ==
    IF ~StartsWith(path, <<"~">>) THEN path
    ELSE LET f == FindChar(path, "/", 2)
             i == IF f = 0 THEN Len(path) + 1 ELSE f
             userhome == IF <<"H","O","M","E">> \in DOMAIN env
                         THEN env[<<"H","O","M","E">>] ELSE PwDir
             out == RStripChar(userhome, "/") \o From(path, i)
         IN  IF Len(out) = 0 THEN <<"/">> ELSE out

-----------------------------------------------------------------------------
(* Results of Python calls: a returned value or a raised exception *)

Return(v) == [kind |-> "return", value |-> v]
Raise(e) == [kind |-> "raise", exc |-> e]

\* fastapi.HTTPException(status_code=..., detail=...). The detail is kept as
\* the fixed text of the message, the path interpolated in it and the
\* directory paths interpolated in it (none for a message that is a fixed
\* sentence).
HTTPException(status_code, text, path, dirs) ==
    [type |-> "HTTPException", status_code |-> status_code,
     detail |-> [text |-> text, path |-> path, dirs |-> dirs, cause |-> <<>>]]

\* HTTPException(status_code=500, detail=...{str(e)}) of a catch-all clause:
\* the detail is made of str(e), kept here as the exception e itself
HTTPExceptionFrom(text, path, e) ==
    [type |-> "HTTPException", status_code |-> 500,
     detail |-> [text |-> text, path |-> path, dirs |-> <<>>, cause |-> <<e>>]]

\* any other exception
PyError(type, msg) == [type |-> type, msg |-> msg]

-----------------------------------------------------------------------------
(* Names of the allowed directories *)

S_Documents == <<"D","o","c","u","m","e","n","t","s">>
S_Downloads == <<"D","o","w","n","l","o","a","d","s">>
S_Desktop == <<"D","e","s","k","t","o","p">>
S_github == <<"g","i","t","h","u","b">>
S_HOME == <<"H","O","M","E">>

\* str(pathlib.PurePosixPath(path)): empty and "." components are dropped,
\* ".." components are kept
PurePathStr(path) ==
    LET initial_slashes ==
            IF ~StartsWith(path, <<"/">>) THEN 0
            ELSE IF StartsWith(path, <<"/", "/">>)
                    /\ ~StartsWith(path, <<"/", "/", "/">>) THEN 2
            ELSE 1
        keep(c) == c # <<>> /\ c # <<".">>
        comps == SelectSeq(SplitStr(path, <<"/">>), keep)
        out == [i \in 1..initial_slashes |-> "/"] \o JoinStr(comps, <<"/">>)
    IN  IF Len(out) = 0 THEN <<".">> ELSE out

\* str(Path.home() / name)
PathHomeJoin(env, name) ==
    PurePathStr(join(PurePathStr(expanduser(<<"~">>, env)), name))

\* ALLOWED_BASE_DIRS, computed when main.py is imported
ALLOWED_BASE_DIRS(env) ==
    << PathHomeJoin(env, S_Documents),
       PathHomeJoin(env, S_Downloads),
       PathHomeJoin(env, S_Desktop),
       PathHomeJoin(env, S_github) >>

\* allowed_dirs of normalize_path
allowed_dirs(env) ==
    << expanduser(<<"~", "/">> \o S_Documents, env),
       expanduser(<<"~", "/">> \o S_Downloads, env),
       expanduser(<<"~", "/">> \o S_Desktop, env),
       expanduser(<<"~", "/">> \o S_github, env) >>

\* any(file_path.startswith(d) for d in dirs)
StartsWithAny(file_path, dirs) ==
    \E k \in 1..Len(dirs) : StartsWith(file_path, dirs[k])

\* The three rewriting steps of normalize_path
ExpandAbsNorm(file_path, env, dir) ==
    LET expanded == expandvars(file_path, env)
        absolute == IF ~isabs(expanded) THEN abspath(expanded, dir)
                    ELSE expanded
    IN  normpath(absolute)

\* A slip: the prefix test is applied before os.path.normpath
normalize_path_unnormalized(file_path, env, dir) ==
    LET expanded == expandvars(file_path, env)
        absolute == IF ~isabs(expanded) THEN abspath(expanded, dir)
                    ELSE expanded
    IN  IF ~StartsWithAny(absolute, allowed_dirs(env))
        THEN Raise(HTTPException(403,
                 "File must be in Documents, Downloads, Desktop, or github directory",
                 <<>>, <<>>))
        ELSE Return(normpath(absolute))

\* A slip: the path is returned as the caller gave it
normalize_path_raw(file_path, env, dir) ==
    IF ~StartsWithAny(ExpandAbsNorm(file_path, env, dir), allowed_dirs(env))
    THEN Raise(HTTPException(403,
             "File must be in Documents, Downloads, Desktop, or github directory",
             <<>>, <<>>))
    ELSE Return(file_path)

\* normalize_path(file_path)
normalize_path(file_path, env, dir) ==
    LET normalized == ExpandAbsNorm(file_path, env, dir) IN
    IF ~StartsWithAny(normalized, allowed_dirs(env))
    THEN Raise(HTTPException(403,
             "File must be in Documents, Downloads, Desktop, or github directory",
             <<>>, <<>>))
    ELSE Return(normalized)

-----------------------------------------------------------------------------
(* The host's filesystem and the text codecs of open(..., 'r', encoding=) *)

Dir == [type |-> "dir", bytes |-> <<>>, readable |-> TRUE]
File(bytes, readable) == [type |-> "file", bytes |-> bytes, readable |-> readable]

S_home == <<"/","h","o","m","e">>
S_etc == <<"/","e","t","c">>
S_Documents2 == <<"D","o","c","u","m","e","n","t","s","2">>
S_home_u == <<"/","h","o","m","e","/","u">>

\* The files of the host: each allowed directory, a sibling Documents2 and
\* /etc hold a file x with the given bytes; the one on the Desktop is not
\* readable by the server's user.
FileSystem(bytes) ==
    LET d(name) == S_home_u \o <<"/">> \o name
        x(dir) == dir \o <<"/", "x">>
    IN  (<<"/">> :> Dir) @@ (S_home :> Dir) @@ (S_home_u :> Dir)
        @@ (S_etc :> Dir) @@ (x(S_etc) :> File(bytes, TRUE))
        @@ (d(S_Documents) :> Dir) @@ (x(d(S_Documents)) :> File(bytes, TRUE))
        @@ (d(S_Downloads) :> Dir) @@ (x(d(S_Downloads)) :> File(bytes, TRUE))
        @@ (d(S_Desktop) :> Dir) @@ (x(d(S_Desktop)) :> File(bytes, FALSE))
        @@ (d(S_github) :> Dir) @@ (x(d(S_github)) :> File(bytes, TRUE))
        @@ (d(S_Documents2) :> Dir) @@ (x(d(S_Documents2)) :> File(bytes, TRUE))

\* os.path.exists, os.path.isfile
exists(fs, path) == path \in DOMAIN fs
isfile(fs, path) == path \in DOMAIN fs /\ fs[path].type = "file"

DecodeError == [ok |-> FALSE, text |-> <<>>]

\* bytes.decode('utf-8'), strict
RECURSIVE Utf8From(_, _, _)
Utf8From(b, i, acc) ==
    IF i > Len(b) THEN [ok |-> TRUE, text |-> acc]
    ELSE LET c == b[i]
             cont(k) == i + k <= Len(b) /\ b[i + k] \in 128..191
             low(k) == b[i + k] - 128
         IN  IF c < 128 THEN Utf8From(b, i + 1, Append(acc, c))
             ELSE IF c \in 194..223 /\ cont(1)
             THEN Utf8From(b, i + 2, Append(acc, (c - 192) * 64 + low(1)))
             ELSE IF /\ c \in 224..239 /\ cont(1) /\ cont(2)
                     /\ (c = 224 => b[i + 1] >= 160)
                     /\ (c = 237 => b[i + 1] <= 159)
             THEN Utf8From(b, i + 3,
                      Append(acc, (c - 224) * 4096 + low(1) * 64 + low(2)))
             ELSE IF /\ c \in 240..244 /\ cont(1) /\ cont(2) /\ cont(3)
                     /\ (c = 240 => b[i + 1] >= 144)
                     /\ (c = 244 => b[i + 1] <= 143)
             THEN Utf8From(b, i + 4,
                      Append(acc, (c - 240) * 262144 + low(1) * 4096
                                  + low(2) * 64 + low(3)))
             ELSE DecodeError

Utf8Decode(b) == Utf8From(b, 1, <<>>)

\* bytes.decode('latin-1'): every byte is its own code point
Latin1Decode(b) == [ok |-> TRUE, text |-> b]

\* bytes 0x80..0x9f of cp1252; 0 marks the five undefined bytes
Cp1252High ==
    << 8364, 0, 8218, 402, 8222, 8230, 8224, 8225,
       710, 8240, 352, 8249, 338, 0, 381, 0,
       0, 8216, 8217, 8220, 8221, 8226, 8211, 8212,
       732, 8482, 353, 8250, 339, 0, 382, 376 >>

Cp1252Char(c) == IF c \in 128..159 THEN Cp1252High[c - 127] ELSE c

\* bytes.decode('cp1252'), strict
Cp1252Decode(b) ==
    IF \E i \in 1..Len(b) : Cp1252Char(b[i]) = 0 THEN DecodeError
    ELSE [ok |-> TRUE, text |-> [i \in 1..Len(b) |-> Cp1252Char(b[i])]]

Decode(b, encoding) ==
    CASE encoding = "utf-8" -> Utf8Decode(b)
      [] encoding = "latin-1" -> Latin1Decode(b)
      [] encoding = "cp1252" -> Cp1252Decode(b)

\* universal newlines of text mode: "\r\n" and "\r" are read as "\n"
RECURSIVE Newlines(_)
Newlines(t) ==
    IF Len(t) = 0 THEN <<>>
    ELSE IF t[1] = 13 /\ Len(t) >= 2 /\ t[2] = 10
    THEN <<10>> \o Newlines(SubSeq(t, 3, Len(t)))
    ELSE IF t[1] = 13 THEN <<10>> \o Newlines(Tail(t))
    ELSE <<t[1]>> \o Newlines(Tail(t))

\* with open(abs_path, 'r', encoding=encoding) as file: file.read()
OpenRead(entry, encoding) ==
    IF ~entry.readable
    THEN Raise(PyError("PermissionError", "[Errno 13] Permission denied"))
    ELSE LET d == Decode(entry.bytes, encoding) IN
         IF d.ok THEN Return(Newlines(d.text))
         ELSE Raise(PyError("UnicodeDecodeError", "codec can't decode byte"))

\* encodings = ['utf-8', 'latin-1', 'cp1252']
encodings == <<"utf-8", "latin-1", "cp1252">>

\* The for loop over the encodings: the first that reads the file returns;
\* a UnicodeDecodeError goes on to the next one. opened lists the encodings
\* the file was opened with.
RECURSIVE TryEncodings(_, _, _)
TryEncodings(entry, encs, opened) ==
    IF Len(encs) = 0
    THEN [exhausted |-> TRUE, res |-> Return(<<>>), opened |-> opened]
    ELSE LET r == OpenRead(entry, Head(encs))
             now == Append(opened, Head(encs))
         IN  IF r.kind = "raise" /\ r.exc.type = "UnicodeDecodeError"
             THEN TryEncodings(entry, Tail(encs), now)
             ELSE [exhausted |-> FALSE, res |-> r, opened |-> now]

-----------------------------------------------------------------------------
(* The tools *)

\* The call at line 165. main.py neither defines nor imports a name
\* is_path_allowed, so evaluating the call raises NameError.
is_path_allowed(abs_path) ==
    Raise(PyError("NameError", "name 'is_path_allowed' is not defined"))

\* outcome of a read_file call: res is what the call returns or raises,
\* norm what its normalize_path call returned or raised, opened the encodings
\* the file was opened with
Called(res, norm, opened) ==
    [called |-> TRUE, res |-> res, norm |-> norm, opened |-> opened]

\* read_file was not called
NoCall == [called |-> FALSE, res |-> Return(<<>>), norm |-> Return(<<>>),
           opened |-> <<>>]

\* except Exception as e, in read_file
read_file_unexpected(file_path, e) ==
    Raise(HTTPExceptionFrom("Error reading file {file_path}: {str(e)}",
                            file_path, e))

\* read_file from the end of its for loop: t is the outcome of the loop
read_file_decoded(n, t) ==
    IF t.exhausted
    THEN Called(Raise(HTTPException(400,
                    "Could not read file {file_path} with any of the supported encodings",
                    n.value, <<>>)),
                n, t.opened)
    ELSE IF t.res.kind = "raise"
    THEN Called(read_file_unexpected(n.value, t.res.exc), n, t.opened)
    ELSE Called(t.res, n, t.opened)

\* read_file from its test of is_path_allowed(abs_path): allowed is the
\* outcome of that call
read_file_allowed(n, abs_path, allowed, env, fs) ==
    IF allowed.kind = "raise"
    THEN Called(read_file_unexpected(n.value, allowed.exc), n, <<>>)
    ELSE IF ~allowed.value
    THEN Called(Raise(HTTPException(403,
                    "Access to {file_path} is not allowed. File must be in one of these directories:\n{allowed_dirs}",
                    n.value, ALLOWED_BASE_DIRS(env))),
                n, <<>>)
    ELSE IF ~exists(fs, abs_path)
    THEN Called(Raise(HTTPException(404, "File not found: {file_path}",
                                    n.value, <<>>)),
                n, <<>>)
    ELSE IF ~isfile(fs, abs_path)
    THEN Called(Raise(HTTPException(400, "Path is not a file: {file_path}",
                                    n.value, <<>>)),
                n, <<>>)
    ELSE read_file_decoded(n, TryEncodings(fs[abs_path], encodings, <<>>))

\* read_file after its call of normalize_path: n is the outcome of that call
read_file_normalized(n, abs_path, env, fs) ==
    IF n.kind = "raise"
    THEN \* except HTTPException: raise
         Called(n, n, <<>>)
    ELSE read_file_allowed(n, abs_path, is_path_allowed(abs_path), env, fs)

\* abs_path = os.path.abspath(file_path), of the normalized path
read_file_abs(n, env, dir, fs) ==
    read_file_normalized(n, IF n.kind = "raise" THEN <<>>
                            ELSE abspath(n.value, dir), env, fs)

\* read_file(file_path)
read_file(file_path, env, dir, fs) ==
    read_file_abs(normalize_path(file_path, env, dir), env, dir, fs)

\* count_r(text)
count_r(text) == StrCount(Lower(text), "r")

DigitChars == <<"0","1","2","3","4","5","6","7","8","9">>

\* str(n) for an integer n >= 0
RECURSIVE IntToStr(_)
IntToStr(n) ==
    IF n < 10 THEN <<DigitChars[n + 1]>>
    ELSE IntToStr(n \div 10) \o <<DigitChars[(n % 10) + 1]>>

-----------------------------------------------------------------------------
(* The HTTP handlers *)

S_read_file == <<"r","e","a","d","_","f","i","l","e">>
S_count_r == <<"c","o","u","n","t","_","r">>
S_NumberOf == <<"N","u","m","b","e","r"," ","o","f"," ","'","r","'"," ","c","h","a","r","a","c","t","e","r","s",":"," ">>
S_InvalidTool == <<"I","n","v","a","l","i","d"," ","t","o","o","l"," ","r","e","q","u","e","s","t","."," ","A","v","a","i","l","a","b","l","e"," ","t","o","o","l","s",":"," ","r","e","a","d","_","f","i","l","e",","," ","c","o","u","n","t","_","r">>

\* The value None. It is no string: its one element is not a character.
None == <<"None">>

NoMetadata == [status |-> "none"]
NoDetail == [text |-> "", path |-> <<>>, dirs |-> <<>>, cause |-> <<>>]
NoResponse == [status_code |-> 0, response |-> None, metadata |-> NoMetadata,
               detail |-> NoDetail]

\* AgentResponse(response=..., metadata=...) returned with status 200
AgentResponse(response, metadata) ==
    [status_code |-> 200, response |-> response, metadata |-> metadata,
     detail |-> NoDetail]

\* the response FastAPI makes of an HTTPException leaving the handler
ErrorResponse(e) ==
    [status_code |-> e.status_code, response |-> None, metadata |-> NoMetadata,
     detail |-> e.detail]

\* parameters.get(key)
Get(parameters, key) ==
    IF key \in DOMAIN parameters THEN parameters[key] ELSE None

\* `not v` for v a string or None
Falsy(v) == v = None \/ v = <<>>

\* The except clauses of execute_tool, on the outcome t of its try block:
\* an HTTPException is re-raised, any other exception becomes
\* HTTPException(500, detail=str(e))
ExecuteToolExcept(t) ==
    [rf |-> t.rf,
     resp |-> IF t.out.kind = "return" THEN t.out.value
              ELSE IF t.out.exc.type = "HTTPException"
              THEN ErrorResponse(t.out.exc)
              ELSE ErrorResponse(HTTPExceptionFrom("{str(e)}", <<>>, t.out.exc))]

\* The except clause of process_request, on the outcome t of its try block:
\* every exception, an HTTPException included (it is a subclass of
\* Exception), becomes HTTPException(500, detail=str(e))
ProcessRequestExcept(t) ==
    [rf |-> t.rf,
     resp |-> IF t.out.kind = "return" THEN t.out.value
              ELSE ErrorResponse(HTTPExceptionFrom("{str(e)}", <<>>, t.out.exc))]

\* result = read_file(file_path); return AgentResponse(response=result, ...)
\* in either handler: r is the outcome of the call
ReadFileResult(r) ==
    [rf |-> r,
     out |-> IF r.res.kind = "raise" THEN r.res
             ELSE Return(AgentResponse(r.res.value,
                      [status |-> "success", tool |-> "read_file"]))]

\* The try block of execute_tool(tool_name, request), with
\* request.parameters = parameters
execute_tool_try(tool_name, parameters, env, dir, fs) ==
    IF tool_name = "read_file"
    THEN LET file_path == Get(parameters, "file_path") IN
         IF Falsy(file_path)
         THEN [rf |-> NoCall,
               out |-> Raise(HTTPException(400, "file_path parameter is required",
                                           <<>>, <<>>))]
         ELSE ReadFileResult(read_file(file_path, env, dir, fs))
    ELSE IF tool_name = "count_r"
    THEN LET text == Get(parameters, "text") IN
         IF Falsy(text)
         THEN [rf |-> NoCall,
               out |-> Raise(HTTPException(400, "text parameter is required",
                                           <<>>, <<>>))]
         ELSE [rf |-> NoCall,
               out |-> Return(AgentResponse(IntToStr(count_r(text)),
                                [status |-> "success", tool |-> "count_r"]))]
    ELSE [rf |-> NoCall,
          out |-> Raise(HTTPException(404, "Tool not found: {tool_name}",
                                      <<>>, <<>>))]

\* execute_tool(tool_name, request): the call of read_file it made and the
\* HTTP response
execute_tool(tool_name, parameters, env, dir, fs) ==
    ExecuteToolExcept(execute_tool_try(tool_name, parameters, env, dir, fs))

\* The try block of process_request(request), with request.prompt = prompt
process_request_try(prompt, env, dir, fs) ==
    IF Contains(Lower(prompt), S_read_file)
    THEN LET parts == SplitStr(prompt, S_read_file) IN
         IF Len(parts) < 2
         THEN [rf |-> NoCall,
               out |-> Raise(PyError("IndexError", "list index out of range"))]
         ELSE ReadFileResult(read_file(Strip(parts[2]), env, dir, fs))
    ELSE IF Contains(Lower(prompt), S_count_r)
    THEN LET parts == SplitStr(prompt, S_count_r) IN
         IF Len(parts) < 2
         THEN [rf |-> NoCall,
               out |-> Raise(PyError("IndexError", "list index out of range"))]
         ELSE [rf |-> NoCall,
               out |-> Return(AgentResponse(
                           S_NumberOf \o IntToStr(count_r(Strip(parts[2]))),
                           [status |-> "success", tool |-> "count_r"]))]
    ELSE [rf |-> NoCall,
          out |-> Return(AgentResponse(S_InvalidTool,
                      [status |-> "error", error |-> "invalid_tool"]))]

\* process_request(request): the call of read_file it made and the HTTP
\* response
process_request(prompt, env, dir, fs) ==
    ProcessRequestExcept(process_request_try(prompt, env, dir, fs))

-----------------------------------------------------------------------------
(* agent.py *)

S_OPENAI_API_KEY == <<"O","P","E","N","A","I","_","A","P","I","_","K","E","Y">>

\* MCPAgent.__init__: os.getenv("OPENAI_API_KEY"), ValueError when it is
\* None or empty
MCPAgent_init(env) ==
    LET api_key == Get(env, S_OPENAI_API_KEY) IN
    IF Falsy(api_key) THEN "ValueError" ELSE "constructed"

-----------------------------------------------------------------------------
(* The __main__ block of main.py *)

\* port = 8081
FirstPort == 8081
\* max_attempts = 5
max_attempts == 5

\* A slip: one iteration too many
InRange_inclusive(a) == a \in 0..max_attempts

\* attempt in range(max_attempts)
InRange(a) == a \in 0..(max_attempts - 1)

\* is_port_in_use(port): connect_ex(('127.0.0.1', port)) == 0
is_port_in_use(p) == p \in listening

-----------------------------------------------------------------------------
(* Inputs *)

\* process environments: HOME and W are set, V varies
BaseEnv == (S_HOME :> S_home_u) @@ (<<"W">> :> <<"x">>)
Environs ==
    { BaseEnv,
      BaseEnv @@ (<<"V">> :> <<".", ".">>),
      BaseEnv @@ (<<"V">> :> <<"$", "W">>) }

\* with and without the language-model credential
BootEnvirons ==
    { BaseEnv,
      BaseEnv @@ (S_OPENAI_API_KEY :> <<>>),
      BaseEnv @@ (S_OPENAI_API_KEY :> <<"s", "k">>) }

Cwds == { S_home_u, <<"/","s","r","v","/","a","p","p">> }

\* "hi\r\n"; "e" with an acute accent in utf-8; the same in latin-1
\* followed by a byte cp1252 does not define
FileContents == { <<104, 105, 13, 10>>, <<195, 169>>, <<233, 129>> }

Bases ==
    { S_home_u \o <<"/">> \o S_Documents,
      S_home_u \o <<"/">> \o S_Downloads,
      S_home_u \o <<"/">> \o S_Desktop,
      S_home_u \o <<"/">> \o S_github,
      S_home_u \o <<"/">> \o S_Documents2,
      S_etc,
      S_Documents,
      <<"$">> \o S_HOME \o <<"/">> \o S_Downloads,
      <<"$", "{">> \o S_HOME \o <<"}", "/">> \o S_Desktop,
      <<"/">> \o S_home_u \o <<"/">> \o S_github }

Segs == { <<".">>, <<".", ".">>, <<"x">>, <<"$", "V">> }

\* the tails of at most n segments, each after a "/"
RECURSIVE Tails(_)
Tails(n) ==
    IF n = 0 THEN {<<>>}
    ELSE LET prev == Tails(n - 1) IN
         prev \cup {t \o <<"/">> \o sg : t \in prev, sg \in Segs}

PathInputs == {b \o t : b \in Bases, t \in Tails(MaxSegs)}

TextAlphabet == {"r", "R", "x", " "}

RECURSIVE Texts(_)
Texts(n) ==
    IF n = 0 THEN {<<>>}
    ELSE LET prev == Texts(n - 1) IN
         prev \cup {Append(t, c) : t \in prev, c \in TextAlphabet}

TextInputs ==
    Texts(MaxTextLen) \cup {<<"R","i","v","e","r">>, <<"R","R","r","r">>, S_home_u \o <<"/">> \o S_github}

ToolNames == {"read_file", "count_r", "list_tools"}

Keywords == {S_read_file, <<"R","E","A","D","_","F","I","L","E">>, S_count_r, <<"C","o","u","n","t","_","R">>, <<"h","e","l","l","o">>}

-----------------------------------------------------------------------------
(* States *)

NoRequest == [route |-> "none", tool_name |-> "", parameters |-> <<>>,
              prompt |-> <<>>]

\* no request handled yet
Idle == req = NoRequest /\ rf = NoCall /\ resp = NoResponse

\* __main__ about to enter its loop
BootStart ==
    /\ pc = "loop" /\ port = FirstPort /\ attempt = 0 /\ probes = <<>>
    /\ servedPort = 0 /\ exitStatus = -1

\* the server listening on the first port, found free
Serving ==
    /\ pc = "serving" /\ port = FirstPort /\ attempt = 0
    /\ probes = <<FirstPort>> /\ listening = {}
    /\ servedPort = FirstPort /\ exitStatus = -1 /\ agent = "none"

\* A server that a client sends one read_file request to
Init ==
    /\ environ \in Environs /\ cwd \in Cwds /\ fileBytes \in FileContents
    /\ arg \in PathInputs
    /\ Idle /\ Serving

\* A server that a client sends one request of any kind to
InitTools ==
    /\ environ = BaseEnv /\ cwd = S_home_u /\ fileBytes = <<104, 105, 13, 10>>
    /\ arg \in TextInputs
    /\ Idle /\ Serving

\* python main.py on a host where some of the ports are taken
InitBoot ==
    /\ environ \in BootEnvirons /\ cwd = S_home_u /\ fileBytes = <<>>
    /\ arg = <<>>
    /\ Idle /\ BootStart /\ agent = "none"
    /\ listening \in SUBSET (FirstPort..(FirstPort + max_attempts))

-----------------------------------------------------------------------------
(* Actions *)

\* A handler answers request with outcome r
Handle(request, r) ==
    /\ req' = request
    /\ rf' = r.rf
    /\ resp' = r.resp
    /\ UNCHANGED <<environ, cwd, fileBytes, arg, bootVars, agent>>

\* POST /tools/{tool_name} with the given parameters
ExecuteTool(tool_name, parameters) ==
    /\ pc = "serving" /\ req.route = "none"
    /\ Handle([route |-> "/tools", tool_name |-> tool_name,
               parameters |-> parameters, prompt |-> <<>>],
              execute_tool(tool_name, parameters, environ, cwd,
                           FileSystem(fileBytes)))

\* POST /process with the given prompt
ProcessRequest(prompt) ==
    /\ pc = "serving" /\ req.route = "none"
    /\ Handle([route |-> "/process", tool_name |-> "", parameters |-> <<>>,
               prompt |-> prompt],
              process_request(prompt, environ, cwd, FileSystem(fileBytes)))

\* POST /tools/read_file {"file_path": arg}
ToolsReadFile == ExecuteTool("read_file", "file_path" :> arg)

\* POST /process {"prompt": "read_file <arg>"}
ProcessReadFile == ProcessRequest(S_read_file \o <<" ">> \o arg)

\* POST /tools/{tool_name} with one parameter, or none
ToolsAny ==
    \E tool_name \in ToolNames :
        \E parameters \in {"file_path" :> arg, "text" :> arg, <<>>} :
            ExecuteTool(tool_name, parameters)

\* POST /process {"prompt": "<keyword> <arg>"}
ProcessAny ==
    \E kw \in Keywords : ProcessRequest(kw \o <<" ">> \o arg)

\* One iteration of the for loop: break on a free port, else try the next
ProbePort ==
    /\ pc = "loop" /\ InRange(attempt)
    /\ probes' = Append(probes, port)
    /\ IF ~is_port_in_use(port)
       THEN pc' = "start" /\ UNCHANGED <<port, attempt>>
       ELSE pc' = "loop" /\ port' = port + 1 /\ attempt' = attempt + 1
    /\ UNCHANGED <<reqVars, listening, servedPort, exitStatus, agent>>

\* The else clause of the for loop: sys.exit(1)
LoopElse ==
    /\ pc = "loop" /\ ~InRange(attempt)
    /\ pc' = "exited" /\ exitStatus' = 1
    /\ UNCHANGED <<reqVars, port, attempt, probes, listening, servedPort, agent>>

\* uvicorn.run("main:app", host="127.0.0.1", port=port)
RunServer ==
    /\ pc = "start"
    /\ pc' = "serving" /\ servedPort' = port
    /\ UNCHANGED <<reqVars, port, attempt, probes, listening, exitStatus, agent>>

\* MCPAgent(), by whoever imports agent.py (main.py does not)
ConstructAgent ==
    /\ agent = "none"
    /\ agent' = MCPAgent_init(environ)
    /\ UNCHANGED <<reqVars, bootVars>>

-----------------------------------------------------------------------------
(* Specifications *)

Next == ToolsReadFile \/ ProcessReadFile
Spec == Init /\ [][Next]_vars

NextTools == ToolsAny \/ ProcessAny
SpecTools == InitTools /\ [][NextTools]_vars

NextBoot == ProbePort \/ LoopElse \/ RunServer \/ ConstructAgent
SpecBoot == InitBoot /\ [][NextBoot]_vars
\* python main.py keeps running: each step of __main__ that can be taken is
\* taken
FairSpecBoot == SpecBoot /\ WF_vars(ProbePort \/ LoopElse \/ RunServer)

-----------------------------------------------------------------------------
(* Vocabulary of the properties *)

\* the four allowed directories of a user whose home is /home/u
ClaimDirs ==
    { S_home_u \o <<"/">> \o S_Documents, S_home_u \o <<"/">> \o S_Downloads,
      S_home_u \o <<"/">> \o S_Desktop, S_home_u \o <<"/">> \o S_github }

\* p has one of the allowed directories as a string prefix
Prefixed(p) == \E d \in ClaimDirs : StartsWith(p, d)

\* p is an allowed directory or lies beneath one
Beneath(p) == \E d \in ClaimDirs : p = d \/ StartsWith(p, d \o <<"/">>)

\* the request's path after expansion, absolutization and normalization
Normalized == ExpandAbsNorm(arg, environ, cwd)

\* p is absolute and has no empty, "." or ".." component
NormalForm(p) ==
    /\ StartsWith(p, <<"/">>)
    /\ \A i \in 1..Len(p) : p[i] = "/" =>
          /\ i < Len(p) \/ Len(p) = 1
          /\ i + 1 <= Len(p) => p[i + 1] # "/" \/ i = 1
          /\ ~(i + 1 <= Len(p) /\ p[i + 1] = "."
               /\ (i + 1 = Len(p) \/ p[i + 2] = "/"))
          /\ ~(i + 2 <= Len(p) /\ p[i + 1] = "." /\ p[i + 2] = "."
               /\ (i + 2 = Len(p) \/ p[i + 3] = "/"))

\* read_file rejected the path with the given status
ReadFailed(status) ==
    /\ rf.res.kind = "raise"
    /\ rf.res.exc.type = "HTTPException"
    /\ rf.res.exc.status_code = status

\* normalize_path accepted the path
Accepted == rf.called /\ rf.norm.kind = "return"

\* the accepted path as read_file looks it up
AbsPath == abspath(rf.norm.value, cwd)

Range(q) == {q[i] : i \in 1..Len(q)}

-----------------------------------------------------------------------------
(* Properties *)

\* C1. Confinement: a path whose expanded, absolutized and normalized string
\* has none of the four allowed directories as a prefix is rejected by
\* normalize_path with 403, read_file raises that 403 and opens nothing; and
\* every path normalize_path accepts has an allowed directory as a prefix.
C1_Confinement ==
    rf.called =>
        /\ ~Prefixed(Normalized) =>
              /\ rf.norm.kind = "raise"
              /\ rf.norm.exc.status_code = 403
              /\ rf.res = rf.norm
              /\ rf.opened = <<>>
        /\ rf.norm.kind = "return" => Prefixed(rf.norm.value)
        /\ rf.opened # <<>> => Prefixed(Normalized)

\* a path that starts inside an allowed directory and climbs out of it was
\* rejected
C1_Witness ==
    /\ rf.called
    /\ StartsWith(arg, S_home_u \o <<"/">> \o S_Documents \o <<"/">>)
    /\ ~Prefixed(Normalized)
    /\ ReadFailed(403)

\* C2. A path under a directory that only shares a string prefix with an
\* allowed directory (such as ~/Documents2) is rejected by normalize_path:
\* whatever is neither an allowed directory nor beneath one is rejected.
C2_SeparatorBoundary ==
    (rf.called /\ ~Beneath(Normalized)) =>
        rf.norm.kind = "raise" /\ rf.norm.exc.status_code = 403

\* C3. Reading a path that passes validation and does not exist fails with
\* 404, never with 500.
C3_NotFound ==
    (Accepted /\ ~exists(FileSystem(fileBytes), AbsPath)) => ReadFailed(404)

\* C4. Every failed read-file request gives the caller the status code of
\* the error read_file raised, on /tools/read_file and on /process alike.
C4_StatusPreserved ==
    (rf.called /\ rf.res.kind = "raise") =>
        resp.status_code = rf.res.exc.status_code

\* C5 as claimed. normalize_path returns the normalized string of every path
\* whose normalized string has an allowed prefix, and normalizing its result
\* again returns the same result.
C5_Idempotent ==
    (rf.called /\ Prefixed(Normalized)) =>
        /\ rf.norm = Return(Normalized)
        /\ normalize_path(rf.norm.value, environ, cwd) = rf.norm

\* C5. normalize_path returns the normalized string of every path whose
\* normalized string has an allowed prefix, a path in normal form; and
\* normalizing that result again returns the same result whenever the result
\* holds no reference to a variable that is set in the environment.
C5_ReturnsNormalized ==
    (rf.called /\ Prefixed(Normalized)) =>
        /\ rf.norm = Return(Normalized)
        /\ NormalForm(rf.norm.value)
        /\ expandvars(rf.norm.value, environ) = rf.norm.value =>
              normalize_path(rf.norm.value, environ, cwd) = rf.norm

\* an accepted path that was rewritten and still holds a "$"
C5_Witness ==
    /\ Accepted
    /\ rf.norm.value # arg
    /\ "$" \in Chars(rf.norm.value)
    /\ expandvars(rf.norm.value, environ) = rf.norm.value

\* C6. An AccessDenied rejection reaches the caller with the list of the
\* allowed directories.
C6_ListsAllowedDirs ==
    (rf.called /\ ReadFailed(403)) =>
        Range(ALLOWED_BASE_DIRS(environ)) \subseteq Range(resp.detail.dirs)

\* the text read_file is to return for a file with these bytes: that of the
\* first of utf-8, latin-1, cp1252 to decode them
FirstDecoding(bytes) ==
    IF Utf8Decode(bytes).ok
    THEN [opened |-> <<"utf-8">>, res |-> Return(Newlines(Utf8Decode(bytes).text))]
    ELSE IF Latin1Decode(bytes).ok
    THEN [opened |-> <<"utf-8", "latin-1">>,
          res |-> Return(Newlines(Latin1Decode(bytes).text))]
    ELSE IF Cp1252Decode(bytes).ok
    THEN [opened |-> <<"utf-8", "latin-1", "cp1252">>,
          res |-> Return(Newlines(Cp1252Decode(bytes).text))]
    ELSE [opened |-> <<"utf-8", "latin-1", "cp1252">>, res |-> Return(<<>>)]

\* C7. For an existing, readable regular file at a validated path read_file
\* opens it with utf-8, latin-1, cp1252 in that order, stops at the first
\* that decodes it and returns that text; if none does it fails with 400.
C7_EncodingOrder ==
    (/\ Accepted
     /\ isfile(FileSystem(fileBytes), AbsPath)
     /\ FileSystem(fileBytes)[AbsPath].readable) =>
        /\ rf.opened = FirstDecoding(fileBytes).opened
        /\ IF \E k \in 1..Len(encodings) : Decode(fileBytes, encodings[k]).ok
           THEN rf.res = FirstDecoding(fileBytes).res
           ELSE ReadFailed(400)

\* C8. POST /tools/count_r with any text, the empty one included, answers
\* with the number of "r" and "R" in the text.
C8_CountR ==
    (/\ req.route = "/tools" /\ req.tool_name = "count_r"
     /\ "text" \in DOMAIN req.parameters) =>
        /\ resp.status_code = 200
        /\ resp.response = IntToStr(Cardinality(
               {i \in 1..Len(req.parameters["text"]) :
                    req.parameters["text"][i] \in {"r", "R"}}))

\* C9. Without OPENAI_API_KEY in the environment the service never gets to
\* serve requests.
C9_FatalWithoutKey ==
    S_OPENAI_API_KEY \notin DOMAIN environ => pc # "serving"

\* what C10 says of every state of the startup
C10_Safe ==
    /\ Len(probes) <= 5
    /\ \A i \in 1..Len(probes) : probes[i] = 8081 + (i - 1)
    /\ \A i \in 1..(Len(probes) - 1) : probes[i] \in listening
    /\ pc \in {"start", "serving"} =>
          /\ probes # <<>> /\ port = probes[Len(probes)]
          /\ port \notin listening
    /\ servedPort # 0 =>
          /\ pc = "serving" /\ servedPort = port
          /\ servedPort \in 8081..8085
          /\ servedPort \notin listening
          /\ \A q \in 8081..(servedPort - 1) : q \in listening
    /\ (8081..8085) \subseteq listening =>
          pc \in {"loop", "exited"} /\ servedPort = 0
    /\ pc = "exited" <=> exitStatus # -1
    /\ pc = "exited" =>
          /\ exitStatus = 1 /\ servedPort = 0
          /\ probes = <<8081, 8082, 8083, 8084, 8085>>
          /\ (8081..8085) \subseteq listening

\* C10. Port selection ends after at most 5 probes, of 8081, 8082, ... in this
\* order; the server starts on the first probed port that is free, never on one
\* seen in use or above 8085; with all five in use the process exits with
\* status 1 and starts no server.
C10_PortSelection == []C10_Safe /\ <>(pc \in {"serving", "exited"})

\* the server started on the third port after finding two in use
C10_Witness == pc = "serving" /\ Len(probes) = 3 /\ servedPort = 8083

====
